---- MODULE Spec2Model ----
(***************************************************************************)
(* Model of src/emailer.py: the bulk email merge tool.                     *)
(*                                                                         *)
(*   get_data    groups the rows of a CSV table into consolidated mappings *)
(*   send_batch  opens one SMTP session and renders/sends one message per  *)
(*               mapping                                                   *)
(*   send        composes one message (subject, plain text, HTML) and      *)
(*               hands it to the session                                   *)
(*                                                                         *)
(* Strings are sequences of one-character strings, so that strip,          *)
(* casefold, startswith and split are computed as Python computes them.    *)
(* A Python dict is a function whose domain is the dict's key set; a       *)
(* Python list is a sequence.                                              *)
(***************************************************************************)
EXTENDS Integers, Sequences, FiniteSets, TLC

VARIABLES
    table,      \* the CSV file: [header |-> field names, rows |-> lines]
    pc,         \* position of run()/send_batch()
    result,     \* outcome of get_data: [status, value]
    data,       \* send_batch's argument: the list of mappings
    idx,        \* position of "for row in data" (1-based)
    session,    \* the smtplib.SMTP session: "none", "open", "closed"
    secured,    \* starttls() has succeeded on the session
    authed,     \* login() has succeeded on the session
    log,        \* history of the calls made, in order
    body,       \* template.render's result for the current row (Markdown)
    html_body,  \* send's local html_body: the body converted to HTML
    soup,       \* send's local soup: the parsed document
    msg,        \* send's local msg: the message being composed
    error       \* the exception propagating out of run(), or "none"

vars == <<table, pc, result, data, idx, session, secured, authed, log, body, html_body, soup,
          msg, error>>

----------------------------------------------------------------------------
(* Bounds of the model *)

\* Longest header (number of columns) of an enumerated table.
MaxCols == 2
\* Largest number of data lines of an enumerated table.
MaxRows == 2
\* Largest number of data lines of a table fed to the whole pipeline.
MaxBatchRows == 2
\* Largest number of Markdown blocks of a rendered body given to send.
MaxBlocks == 3

\* Column names and field values the enumerated tables are drawn from.
Columns == {"Group", "EmailAddress", "Name"}
Values == {"a", "b"}

\* csv.DictReader's restkey (the key of the surplus fields) and restval (the
\* value of a missing field) both default to Python's None, which is no string.
RestKey == "<None>"
RestVal == "<None>"

----------------------------------------------------------------------------
(* Generic helpers *)

Range(s) == {s[j] : j \in 1..Len(s)}

Min(a, b) == IF a < b THEN a ELSE b

\* All sequences over S of length 0..n.
SeqsUpTo(S, n) == UNION {[1..k -> S] : k \in 0..n}

\* Sequences without a repeated element.
Injective(s) == \A j, k \in 1..Len(s) : j # k => s[j] # s[k]

RECURSIVE Flatten(_)
\* "".join(list of strings)
Flatten(ss) == IF ss = <<>> THEN <<>> ELSE Head(ss) \o Flatten(Tail(ss))

----------------------------------------------------------------------------
(* The tables get_data is run on *)

\* Lines of 0 fields (a blank line) up to one field more than the header has.
LinesFor(header) == SeqsUpTo(Values, Len(header) + 1)

\* t is one of the tables with a header of headers and at most maxRows lines.
IsTableOf(t, headers, maxRows) ==
    \E h \in headers : \E n \in 0..maxRows : \E r \in [1..n -> LinesFor(h)] :
        t = [header |-> h, rows |-> r]

\* A header of length 0 stands for a file without a header line (fieldnames
\* None, no lines at all) and for a blank first line (fieldnames []).
Headers == {h \in SeqsUpTo(Columns, MaxCols) : Injective(h)}

\* The headers of the tables run through the whole pipeline.
BatchHeaders == {<<"EmailAddress">>, <<"Group", "EmailAddress">>, <<"Group">>}

----------------------------------------------------------------------------
(* csv.DictReader, as get_data uses it (src/emailer.py:28,34) *)

\* dict(zip(fieldnames, row)): a later duplicate of a name overwrites.
ZipDict(fieldnames, row) ==
    LET n == Min(Len(fieldnames), Len(row))
        keys == {fieldnames[j] : j \in 1..n}
        last(k) == CHOOSE j \in 1..n :
                       fieldnames[j] = k /\ \A m \in (j+1)..n : fieldnames[m] # k
    IN  [k \in keys |-> row[last(k)]]

\* One row dict: surplus fields go under restkey as a list, missing fields
\* get restval.
DictRow(fieldnames, row) ==
    LET d == ZipDict(fieldnames, row)
        lf == Len(fieldnames)
        lr == Len(row)
    IN  IF lf < lr THEN (RestKey :> SubSeq(row, lf + 1, lr)) @@ d
        ELSE IF lf > lr THEN [k \in {fieldnames[j] : j \in (lr+1)..lf} |-> RestVal] @@ d
        ELSE d

\* The row dicts in file order; DictReader skips blank lines (row == []).
DictReader(t) ==
    LET lines == SelectSeq(t.rows, LAMBDA r : r # <<>>)
    IN  [j \in 1..Len(lines) |-> DictRow(t.header, lines[j])]

----------------------------------------------------------------------------
(* get_data (src/emailer.py:16-46) *)

\* str.casefold on the names it is applied to.
CasefoldName(name) ==
    CASE name = "Group" -> "group"
      [] name = "EmailAddress" -> "emailaddress"
      [] OTHER -> name

\* Lines 29-31: "Group", unless there are field names and none is "Group".
GroupBy(fieldnames) ==
    IF Len(fieldnames) > 0 /\ "Group" \notin Range(fieldnames)
    THEN "EmailAddress"
    ELSE "Group"

\* AddMember as a bug would have it: every row opens a group of its own.
AddMemberNoMerge(groups, key, row) ==
    Append(groups, [key |-> key, members |-> <<row>>])

\* Lines 35-36: groups.setdefault(key, []).append(row). The dict groups keeps
\* insertion order: it is a sequence of [key, members].
AddMember(groups, key, row) ==
    IF \E j \in 1..Len(groups) : groups[j].key = key
    THEN [j \in 1..Len(groups) |->
            IF groups[j].key = key
            THEN [groups[j] EXCEPT !.members = Append(@, row)]
            ELSE groups[j]]
    ELSE Append(groups, [key |-> key, members |-> <<row>>])

RECURSIVE AddRows(_, _, _)
\* Lines 34-36: the loop over the reader; row[groupby] raises KeyError when
\* the row has no such key.
AddRows(rows, groupby, groups) ==
    IF rows = <<>> THEN [status |-> "ok", groups |-> groups]
    ELSE IF groupby \notin DOMAIN Head(rows)
         THEN [status |-> "KeyError", groups |-> groups]
         ELSE AddRows(Tail(rows), groupby,
                      AddMember(groups, Head(rows)[groupby], Head(rows)))

\* Lines 38-42: for each key of each member, append the value to the key's list.
Collect(group) ==
    LET keys == UNION {DOMAIN group[j] : j \in 1..Len(group)}
        having(k) == SelectSeq(group, LAMBDA m : k \in DOMAIN m)
    IN  [k \in keys |-> [j \in 1..Len(having(k)) |-> having(k)[j][k]]]

\* DropGroup as a bug would have it: the grouping key is always deleted.
DropGroupAlways(members, groupby) ==
    [k \in (DOMAIN members) \ {groupby} |-> members[k]]

\* Lines 43-44: del members[groupby] when groupby is "Group".
DropGroup(members, groupby) ==
    IF CasefoldName(groupby) = "group"
    THEN [k \in (DOMAIN members) \ {groupby} |-> members[k]]
    ELSE members

\* Lines 37-45.
Consolidate(group, groupby) == DropGroup(Collect(group), groupby)

GetData(t) ==
    LET groupby == GroupBy(t.header)
        g == AddRows(DictReader(t), groupby, <<>>)
    IN  IF g.status # "ok"
        THEN [status |-> g.status, value |-> <<>>]
        ELSE [status |-> "ok",
              value |-> [j \in 1..Len(g.groups) |->
                            Consolidate(g.groups[j].members, groupby)]]

----------------------------------------------------------------------------
(* Python str methods used by send, on strings as character sequences *)

Whitespace == {" ", "\n", "\t"}

RECURSIVE LStrip(_)
LStrip(s) == IF s # <<>> /\ Head(s) \in Whitespace THEN LStrip(Tail(s)) ELSE s

RECURSIVE RStrip(_)
RStrip(s) ==
    IF s # <<>> /\ s[Len(s)] \in Whitespace THEN RStrip(SubSeq(s, 1, Len(s) - 1)) ELSE s

\* str.strip()
Strip(s) == RStrip(LStrip(s))

\* str.casefold() on one character of the alphabet of the texts below.
Lower(c) ==
    CASE c = "S" -> "s" [] c = "U" -> "u" [] c = "B" -> "b" [] c = "J" -> "j"
      [] c = "E" -> "e" [] c = "C" -> "c" [] c = "T" -> "t" [] c = "H" -> "h"
      [] OTHER -> c

\* str.casefold()
CasefoldText(s) == [j \in 1..Len(s) |-> Lower(s[j])]

\* str.startswith(prefix)
StartsWith(s, prefix) ==
    Len(s) >= Len(prefix) /\ SubSeq(s, 1, Len(prefix)) = prefix

\* AfterFirstColon as a bug would have it: s.rsplit(":", 1)[-1].
AfterLastColon(s) ==
    IF \E j \in 1..Len(s) : s[j] = ":"
    THEN LET last == CHOOSE j \in 1..Len(s) :
                         s[j] = ":" /\ \A k \in (j+1)..Len(s) : s[k] # ":"
         IN  SubSeq(s, last + 1, Len(s))
    ELSE s

\* s.split(":", 1)[-1]: what follows the first colon, or all of s without one.
AfterFirstColon(s) ==
    IF \E j \in 1..Len(s) : s[j] = ":"
    THEN LET first == CHOOSE j \in 1..Len(s) :
                          s[j] = ":" /\ \A k \in 1..(j-1) : s[k] # ":"
         IN  SubSeq(s, first + 1, Len(s))
    ELSE s

SubjectWord == <<"s", "u", "b", "j", "e", "c", "t">>

----------------------------------------------------------------------------
(* The rendered bodies given to send *)

\* Texts of HTML comments in a body:
\*   " Subject: Hi "   "SUBJECT:a:b"   "subject x"   " note "   "re: subject"
CommentTexts ==
    { <<" ", "S", "u", "b", "j", "e", "c", "t", ":", " ", "H", "i", " ">>,
      <<"S", "U", "B", "J", "E", "C", "T", ":", "a", ":", "b">>,
      <<"s", "u", "b", "j", "e", "c", "t", " ", "x">>,
      <<" ", "n", "o", "t", "e", " ">>,
      <<"r", "e", ":", " ", "s", "u", "b", "j", "e", "c", "t">> }

\* Texts of paragraphs in a body: "Hi", "a b".
ParaTexts == { <<"H", "i">>, <<"a", " ", "b">> }

\* A Markdown body is a sequence of blocks: paragraphs and raw HTML comments.
Blocks ==
    {[kind |-> "comment", s |-> c] : c \in CommentTexts}
        \cup {[kind |-> "para", s |-> t] : t \in ParaTexts}

\* The bodies template.render returns in the runs of the whole pipeline.
RenderOutputs ==
    { << [kind |-> "comment", s |-> <<" ", "S", "u", "b", "j", "e", "c", "t", ":", " ", "H", "i", " ">>],
         [kind |-> "para", s |-> <<"H", "i">>] >>,
      << [kind |-> "para", s |-> <<"a", " ", "b">>] >> }

----------------------------------------------------------------------------
(* send (src/emailer.py:76-102) *)

Tag(name) == [kind |-> "tag", s |-> name]
TextNode(s) == [kind |-> "text", s |-> s]
CommentNode(s) == [kind |-> "comment", s |-> s]

\* Line 88: pycmarkgfm.gfm_to_html(body, options=unsafe). A paragraph becomes
\* <p>text</p> and a newline, a raw HTML comment is passed through (unsafe)
\* and followed by a newline. HTML is a sequence of tags, texts and comments.
BlockToHtml(b) ==
    IF b.kind = "para"
    THEN << Tag(<<"p">>), TextNode(b.s), Tag(<<"/", "p">>), TextNode(<<"\n">>) >>
    ELSE << CommentNode(b.s), TextNode(<<"\n">>) >>

GfmToHtml(md) == Flatten([j \in 1..Len(md) |-> BlockToHtml(md[j])])

\* Line 89: BeautifulSoup(html_body, "lxml"): the document's nodes in document
\* order; the lxml builder wraps the content in <html><body>.
ParseHtml(html) ==
    << Tag(<<"h", "t", "m", "l">>), Tag(<<"b", "o", "d", "y">>) >> \o html
        \o << Tag(<<"/", "b", "o", "d", "y">>), Tag(<<"/", "h", "t", "m", "l">>) >>

\* Lines 91-92: the predicate given to find.
IsSubjectComment(node) ==
    node.kind = "comment" /\ StartsWith(CasefoldText(Strip(node.s)), SubjectWord)

\* Line 90: soup.find(string=...): the position of the first string node in
\* document order that satisfies the predicate, 0 for None.
FindSubject(doc) ==
    IF \E j \in 1..Len(doc) : IsSubjectComment(doc[j])
    THEN CHOOSE j \in 1..Len(doc) :
             IsSubjectComment(doc[j]) /\ \A k \in 1..(j-1) : ~IsSubjectComment(doc[k])
    ELSE 0

\* Extract as a bug would have it: the node stays in the document.
ExtractNothing(doc, j) == doc

\* Line 96: subject_comment.extract() takes the node out of the document.
Extract(doc, j) == SubSeq(doc, 1, j - 1) \o SubSeq(doc, j + 1, Len(doc))

\* Line 99: soup.find_all(string=True): every string node of the document,
\* comments too (bs4's Comment is a NavigableString).
FindAllStrings(doc) == SelectSeq(doc, LAMBDA n : n.kind \in {"text", "comment"})

----------------------------------------------------------------------------
(* State machine *)

NoResult == [status |-> "none", value |-> <<>>]
NoMsg == [From |-> "", To |-> <<>>, Subject |-> <<>>, text |-> <<>>, html |-> <<>>]
NoError == [type |-> "none", at |-> "none", idx |-> 0]

\* run() is called without --sender: send_batch uses the username (lines 65-66).
Username == "user"

Call(op, i, to) == [op |-> op, idx |-> i, to |-> to]

InitRest ==
    /\ pc = "get_data"
    /\ result = NoResult
    /\ data = <<>>
    /\ idx = 1
    /\ session = "none"
    /\ secured = FALSE
    /\ authed = FALSE
    /\ log = <<>>
    /\ body = <<>>
    /\ html_body = <<>>
    /\ soup = <<>>
    /\ msg = NoMsg
    /\ error = NoError

\* run(), line 135: data = get_data(args.csvfile); an exception ends the run.
GetDataStep ==
    /\ pc = "get_data"
    /\ LET returned == GetData(table)
       IN  /\ result' = returned
           /\ IF returned.status = "ok"
              THEN /\ pc' = "open"
                   /\ data' = returned.value
                   /\ error' = error
              ELSE /\ pc' = "done"
                   /\ data' = data
                   /\ error' = [type |-> returned.status, at |-> "get_data", idx |-> 0]
    /\ UNCHANGED <<table, idx, session, secured, authed, log, body, html_body, soup, msg>>

\* Line 68: with smtplib.SMTP("smtp.gmail.com", port=587) as server.
OpenSession ==
    /\ pc = "open"
    /\ session' = "open"
    /\ log' = Append(log, Call("connect", 0, <<>>))
    /\ pc' = "starttls"
    /\ UNCHANGED <<table, result, data, idx, secured, authed, body, html_body, soup, msg, error>>

\* Line 69: server.starttls() returns or raises.
StartTls ==
    /\ pc = "starttls"
    /\ \/ /\ secured' = TRUE
          /\ log' = Append(log, Call("starttls", 0, <<>>))
          /\ pc' = "login"
          /\ error' = error
       \/ /\ error' = [type |-> "SMTPException", at |-> "starttls", idx |-> 0]
          /\ pc' = "exit"
          /\ UNCHANGED <<secured, log>>
    /\ UNCHANGED <<table, result, data, idx, session, authed, body, html_body, soup, msg>>

\* Line 70: server.login(username, password) returns or raises.
Login ==
    /\ pc = "login"
    /\ \/ /\ authed' = TRUE
          /\ log' = Append(log, Call("login", 0, <<>>))
          /\ pc' = "loop"
          /\ error' = error
       \/ /\ error' = [type |-> "SMTPAuthenticationError", at |-> "login", idx |-> 0]
          /\ pc' = "exit"
          /\ UNCHANGED <<authed, log>>
    /\ UNCHANGED <<table, result, data, idx, session, secured, body, html_body, soup, msg>>

\* LoopNext as a bug would have it: the last row is left out.
LoopNextOffByOne ==
    /\ pc = "loop"
    /\ pc' = IF idx < Len(data) THEN "render" ELSE "exit"
    /\ UNCHANGED <<table, result, data, idx, session, secured, authed, log, body, html_body, soup, msg, error>>

\* Line 71: for row in data: the next row, or the end of the with block.
LoopNext ==
    /\ pc = "loop"
    /\ pc' = IF idx <= Len(data) THEN "render" ELSE "exit"
    /\ UNCHANGED <<table, result, data, idx, session, secured, authed, log, body, html_body, soup, msg, error>>

\* Line 72: body = template.render(**row). A key that is no string (the None
\* of surplus fields) makes the call itself raise TypeError; otherwise render
\* returns a body or raises.
Render ==
    /\ pc = "render"
    /\ \/ /\ RestKey \in DOMAIN data[idx]
          /\ error' = [type |-> "TypeError", at |-> "render", idx |-> idx]
          /\ pc' = "exit"
          /\ UNCHANGED <<body, log>>
       \/ /\ RestKey \notin DOMAIN data[idx]
          /\ \E b \in RenderOutputs : body' = b
          /\ log' = Append(log, Call("render", idx, <<>>))
          /\ pc' = "lookup"
          /\ error' = error
       \/ /\ RestKey \notin DOMAIN data[idx]
          /\ error' = [type |-> "TemplateError", at |-> "render", idx |-> idx]
          /\ pc' = "exit"
          /\ UNCHANGED <<body, log>>
    /\ UNCHANGED <<table, result, data, idx, session, secured, authed, html_body, soup, msg>>

\* Line 73, the argument row["EmailAddress"]: KeyError without the key.
Lookup ==
    /\ pc = "lookup"
    /\ IF "EmailAddress" \in DOMAIN data[idx]
       THEN pc' = "send" /\ error' = error
       ELSE /\ pc' = "exit"
            /\ error' = [type |-> "KeyError", at |-> "lookup", idx |-> idx]
    /\ UNCHANGED <<table, result, data, idx, session, secured, authed, log, body, html_body, soup, msg>>

\* Lines 73, 76-89: send(server, sender, row["EmailAddress"], body) is
\* entered: From and To are set, the body is converted to HTML and parsed.
SendParse ==
    /\ pc = "send"
    /\ msg' = [NoMsg EXCEPT !.From = Username, !.To = data[idx]["EmailAddress"]]
    /\ html_body' = GfmToHtml(body)
    /\ soup' = ParseHtml(GfmToHtml(body))
    /\ pc' = "subject"
    /\ UNCHANGED <<table, result, data, idx, session, secured, authed, log, body, error>>

\* Lines 90-98: the subject comment gives the Subject and is taken out of the
\* document; without one the Subject is "".
SendSubject ==
    /\ pc = "subject"
    /\ \E subject_comment \in {FindSubject(soup)} :
           IF subject_comment # 0
           THEN /\ msg' = [msg EXCEPT
                             !.Subject = Strip(AfterFirstColon(soup[subject_comment].s))]
                /\ soup' = Extract(soup, subject_comment)
           ELSE /\ msg' = [msg EXCEPT !.Subject = <<>>]
                /\ soup' = soup
    /\ pc' = "transmit"
    /\ UNCHANGED <<table, result, data, idx, session, secured, authed, log, body, html_body,
                   error>>

\* Line 99: "".join(soup.find_all(string=True)).
TextBody(doc) == Flatten([j \in 1..Len(FindAllStrings(doc)) |-> FindAllStrings(doc)[j].s])

\* SendTransmit as a bug would have it: a failed transmission is caught and
\* the loop goes on with the next row.
SendTransmitAndContinue ==
    /\ pc = "transmit"
    /\ msg' = [msg EXCEPT !.text = TextBody(soup), !.html = html_body]
    /\ \/ /\ log' = Append(log, Call("send_message", idx, msg.To))
          /\ error' = error
       \/ /\ error' = [type |-> "SMTPException", at |-> "send", idx |-> idx]
          /\ log' = log
    /\ idx' = idx + 1
    /\ pc' = "loop"
    /\ UNCHANGED <<table, result, data, session, secured, authed, body, html_body, soup>>

\* Lines 99-102: the plain text is joined from the document's strings, the
\* HTML alternative is html_body; server.send_message(msg) transmits the
\* message or raises.
SendTransmit ==
    /\ pc = "transmit"
    /\ msg' = [msg EXCEPT !.text = TextBody(soup), !.html = html_body]
    /\ \/ /\ log' = Append(log, Call("send_message", idx, msg.To))
          /\ idx' = idx + 1
          /\ pc' = "loop"
          /\ error' = error
       \/ /\ error' = [type |-> "SMTPException", at |-> "send", idx |-> idx]
          /\ pc' = "exit"
          /\ UNCHANGED <<log, idx>>
    /\ UNCHANGED <<table, result, data, session, secured, authed, body, html_body, soup>>

\* ExitSession as a bug would have it: no with block, quit() only at the end
\* of a batch that did not raise.
ExitSessionOnSuccessOnly ==
    /\ pc = "exit"
    /\ IF error = NoError
       THEN session' = "closed" /\ log' = Append(log, Call("quit", 0, <<>>))
       ELSE UNCHANGED <<session, log>>
    /\ pc' = "done"
    /\ UNCHANGED <<table, result, data, idx, secured, authed, body, html_body, soup, msg, error>>

\* Line 68, leaving the with block (SMTP.__exit__): the session is closed on
\* normal completion and on an exception alike; the exception propagates.
ExitSession ==
    /\ pc = "exit"
    /\ session' = "closed"
    /\ log' = Append(log, Call("quit", 0, <<>>))
    /\ pc' = "done"
    /\ UNCHANGED <<table, result, data, idx, secured, authed, body, html_body, soup, msg, error>>

\* send (lines 76-102), step by step.
Send ==
    \/ SendParse
    \/ SendSubject
    \/ SendTransmit

\* send_batch (lines 65-73), step by step.
SendBatch ==
    \/ OpenSession
    \/ StartTls
    \/ Login
    \/ LoopNext
    \/ Render
    \/ Lookup
    \/ Send
    \/ ExitSession

\* run() (lines 135-136).
Next ==
    \/ GetDataStep
    \/ SendBatch

\* The whole run, on the tables of the pipeline.
Init == IsTableOf(table, BatchHeaders, MaxBatchRows) /\ InitRest

Spec == Init /\ [][Next]_vars

\* Every call send_batch makes is a blocking call that returns or raises, and
\* the single thread then goes on to the next statement.
FairSpec == Spec /\ WF_vars(SendBatch)

\* get_data alone, on all the enumerated tables.
InitData == IsTableOf(table, Headers, MaxRows) /\ InitRest

SpecData == InitData /\ [][GetDataStep]_vars

\* send alone, called in an open session with each enumerated body.
InitSend ==
    /\ table = [header |-> <<"EmailAddress">>, rows |-> << <<"a">> >>]
    /\ result = GetData(table)
    /\ data = result.value
    /\ idx = 1
    /\ pc = "send"
    /\ session = "open"
    /\ secured = TRUE
    /\ authed = TRUE
    /\ log = << Call("connect", 0, <<>>), Call("starttls", 0, <<>>),
                Call("login", 0, <<>>), Call("render", 1, <<>>) >>
    /\ \E n \in 0..MaxBlocks : body \in [1..n -> Blocks]
    /\ html_body = <<>>
    /\ soup = <<>>
    /\ msg = NoMsg
    /\ error = NoError

SpecSend == InitSend /\ [][Send]_vars

----------------------------------------------------------------------------
(* Reading a table directly, for the statements about get_data *)

\* The data lines csv hands over: the blank ones are not rows.
DataLines(t) == SelectSeq(t.rows, LAMBDA r : r # <<>>)

\* Position of column c in the header (the headers enumerated name a column once).
ColumnPos(t, c) == CHOOSE p \in 1..Len(t.header) : t.header[p] = c

\* The value a line holds for column c; a line too short for it holds None.
Cell(t, line, c) ==
    IF ColumnPos(t, c) <= Len(line) THEN line[ColumnPos(t, c)] ELSE RestVal

\* The grouping column as the specification names it.
GroupingColumn(t) ==
    IF "Group" \in Range(t.header) THEN "Group" ELSE "EmailAddress"

HasGroupingColumn(t) == GroupingColumn(t) \in Range(t.header)

\* The grouping value of the j-th data line.
GroupValue(t, j) == Cell(t, DataLines(t)[j], GroupingColumn(t))

\* Positions of the data lines whose grouping value occurs there for the first
\* time, ascending.
FirstSeen(t) ==
    LET n == Len(DataLines(t))
    IN  SelectSeq([j \in 1..n |-> j],
                  LAMBDA j : \A k \in 1..(j-1) : GroupValue(t, k) # GroupValue(t, j))

\* The data lines with grouping value v, in file order.
MemberLines(t, v) ==
    SelectSeq(DataLines(t), LAMBDA line : Cell(t, line, GroupingColumn(t)) = v)

\* Column c of the given lines, in order.
ColumnOf(t, lines, c) == [j \in 1..Len(lines) |-> Cell(t, lines[j], c)]

\* The keys a consolidated mapping is to have.
ExpectedKeys(t) ==
    IF GroupingColumn(t) = "Group" THEN Range(t.header) \ {"Group"} ELSE Range(t.header)

Returned == result.status = "ok"

\* C1: for a table that has its grouping column (Group, else EmailAddress),
\* get_data returns exactly one mapping per distinct grouping value, and the
\* i-th mapping belongs to the i-th grouping value in order of first
\* occurrence: its columns hold the values of that value's lines.
C1_OneMappingPerGroupInFirstSeenOrder ==
    (result.status # "none" /\ HasGroupingColumn(table)) =>
        /\ Returned
        /\ Len(result.value) = Len(FirstSeen(table))
        /\ Len(result.value) =
               Cardinality({GroupValue(table, j) : j \in 1..Len(DataLines(table))})
        /\ \A i \in 1..Len(result.value) :
               \A c \in ExpectedKeys(table) :
                   /\ c \in DOMAIN result.value[i]
                   /\ result.value[i][c] =
                          ColumnOf(table,
                                   MemberLines(table, GroupValue(table, FirstSeen(table)[i])),
                                   c)

\* C1 witness: two groups returned, the first-seen one ("b") sorting after the
\* second ("a"), told apart by their EmailAddress column.
C1_Witness ==
    /\ Returned
    /\ table.header = <<"Group", "EmailAddress">>
    /\ Len(result.value) = 2
    /\ table.rows = << <<"b", "a">>, <<"a", "b">> >>
    /\ result.value[1]["EmailAddress"] = <<"a">>

\* C2 (as claimed): every mapping's key set is the header's columns minus
\* Group (when grouping by Group) and every value has one entry per member
\* line, in line order, also when lines are shorter or longer than the header.
C2_KeySetIsHeaderColumns ==
    (Returned /\ HasGroupingColumn(table)) =>
        \A i \in 1..Len(result.value) :
            /\ DOMAIN result.value[i] = ExpectedKeys(table)
            /\ \A c \in ExpectedKeys(table) :
                   result.value[i][c] =
                       ColumnOf(table,
                                MemberLines(table, GroupValue(table, FirstSeen(table)[i])),
                                c)

\* C9 (as claimed): get_data fails with a SchemaError when the table has no
\* header or its header has neither a Group nor an EmailAddress column.
C9_SchemaErrorWithoutGroupingColumn ==
    (result.status # "none" /\ ~HasGroupingColumn(table)) =>
        result.status = "SchemaError"

\* C10 (as claimed): without a Group column every mapping keeps EmailAddress,
\* as a sequence of exactly one element.
C10_EmailAddressHasOneElement ==
    (Returned /\ "Group" \notin Range(table.header)) =>
        \A i \in 1..Len(result.value) :
            /\ "EmailAddress" \in DOMAIN result.value[i]
            /\ Len(result.value[i]["EmailAddress"]) = 1

\* C10 (amended): without a Group column every mapping keeps EmailAddress, as
\* a sequence with one element per member line (at least one), every element
\* being the group's address; it has exactly one element when the address
\* occurs in one line only.
C10_EmailAddressOnePerMemberLine ==
    (Returned /\ "Group" \notin Range(table.header)) =>
        \A i \in 1..Len(result.value) :
            LET v == GroupValue(table, FirstSeen(table)[i])
                n == Len(MemberLines(table, v))
            IN  /\ "EmailAddress" \in DOMAIN result.value[i]
                /\ n >= 1
                /\ result.value[i]["EmailAddress"] = [j \in 1..n |-> v]

\* C10 witness: two lines share an address and come back as one mapping whose
\* EmailAddress holds the address twice.
C10_Witness ==
    /\ Returned
    /\ table.header = <<"EmailAddress", "Name">>
    /\ table.rows = << <<"a", "a">>, <<"a", "b">> >>
    /\ Len(result.value) = 1
    /\ result.value[1]["EmailAddress"] = <<"a", "a">>

----------------------------------------------------------------------------
(* Statements about send_batch *)

\* The render and send_message calls made so far, in order.
Calls == SelectSeq(log, LAMBDA c : c.op \in {"render", "send_message"})

Transmissions == SelectSeq(log, LAMBDA c : c.op = "send_message")

\* render and transmission of the mappings 1..n, one after the other, each
\* transmission addressed to its mapping's EmailAddress sequence.
CallsFor(n) ==
    [k \in 1..(2 * n) |->
        IF k % 2 = 1
        THEN Call("render", (k + 1) \div 2, <<>>)
        ELSE Call("send_message", k \div 2, data[k \div 2]["EmailAddress"])]

AllAddressed(n) == \A i \in 1..n : "EmailAddress" \in DOMAIN data[i]

\* send_batch has returned or raised.
BatchEnded == pc = "done" /\ session # "none"

C4_AbortAtFirstFailure ==
    (pc = "done" /\ error.at \in {"render", "send"}) =>
        LET k == error.idx
        IN  /\ k \in 1..Len(data)
            /\ AllAddressed(k - 1)
            /\ Calls = CallsFor(k - 1) \o
                   (IF error.at = "send" THEN << Call("render", k, <<>>) >> ELSE <<>>)
            /\ error.type \in {"TemplateError", "TypeError", "SMTPException"}

\* C4 witness: the render of the second mapping failed after the first mapping
\* was transmitted.
C4_Witness ==
    /\ pc = "done"
    /\ error.at = "render"
    /\ error.idx = 2
    /\ Len(Transmissions) = 1

\* Position of the first call of op in the log, 0 without one.
FirstCall(op) ==
    IF \E p \in 1..Len(log) : log[p].op = op
    THEN CHOOSE p \in 1..Len(log) : log[p].op = op /\ \A q \in 1..(p-1) : log[q].op # op
    ELSE 0

CountCalls(op) == Cardinality({p \in 1..Len(log) : log[p].op = op})

C5_Safe ==
    /\ CountCalls("connect") = (IF session = "none" THEN 0 ELSE 1)
    /\ CountCalls("quit") = (IF session = "closed" THEN 1 ELSE 0)
    /\ \A p \in 1..Len(log) :
           log[p].op = "send_message" =>
               /\ FirstCall("connect") # 0
               /\ FirstCall("connect") < FirstCall("starttls")
               /\ FirstCall("starttls") < FirstCall("login")
               /\ FirstCall("login") < p
               /\ \A q \in 1..p : log[q].op # "quit"

\* C5: the session is opened once, secured and authenticated (starttls, then
\* login) before the first transmission, no transmission follows its closing,
\* and every run of send_batch ends with the session closed, whatever the
\* outcome of the batch.
C5_SessionOpenedOnceAndClosed ==
    /\ []C5_Safe
    /\ (pc = "open") ~> (session = "closed" /\ pc = "done")

\* C5 witness: the session was closed after a lookup error that followed a
\* transmission.
C5_Witness ==
    /\ pc = "done"
    /\ session = "closed"
    /\ error.at = "lookup"
    /\ CountCalls("quit") = 1

----------------------------------------------------------------------------
(* Statements about send *)

\* send has composed a message from body and handed it to send_message.
Composed == pc \in {"loop", "exit"}

\* The document send parses from the rendered body.
Document == ParseHtml(GfmToHtml(body))

\* s, trimmed and in lower case, begins with "subject".
BeginsWithSubject(s) ==
    \E a \in 1..Len(s) :
        /\ \A k \in 1..(a-1) : s[k] \in Whitespace
        /\ a + 6 <= Len(s)
        /\ \A k \in 0..6 : Lower(s[a + k]) = SubjectWord[k + 1]

SubjectComments ==
    {j \in 1..Len(Document) :
        Document[j].kind = "comment" /\ BeginsWithSubject(Document[j].s)}

\* The first subject comment in document order (when there is one).
FirstSubjectComment == CHOOSE j \in SubjectComments : \A k \in SubjectComments : j <= k

\* s without its leading and trailing whitespace.
Trimmed(s) ==
    LET inked == {j \in 1..Len(s) : s[j] \notin Whitespace}
    IN  IF inked = {} THEN <<>>
        ELSE SubSeq(s, CHOOSE a \in inked : \A j \in inked : a <= j,
                       CHOOSE b \in inked : \A j \in inked : j <= b)

Colons(s) == {j \in 1..Len(s) : s[j] = ":"}

\* The texts of the nodes of doc at the positions in keep, concatenated.
TextOf(doc, keep) ==
    LET kept == SelectSeq([j \in 1..Len(doc) |-> j], LAMBDA j : j \in keep)
    IN  Flatten([k \in 1..Len(kept) |-> doc[kept[k]].s])

Occurrences(doc, node) == Cardinality({j \in 1..Len(doc) : doc[j] = node})

C8_PlainTextIsVisibleTextOnly ==
    Composed =>
        msg.text = TextOf(Document, {j \in 1..Len(Document) : Document[j].kind = "text"})

====
